---- MODULE Spec2Model ----
(***************************************************************************)
(* Model of polyquad's triangular-prism domain, src/src/shapes/pri.hpp.    *)
(*                                                                         *)
(* Real scalars of type T are modelled exactly, as integers counting       *)
(* multiples of 1/One, so that T(1)/3 and 0.5 are grid points.  Rounding   *)
(* of the floating-point instantiations of T is outside the model.         *)
(***************************************************************************)
EXTENDS Integers, Sequences, FiniteSets

\* ------------------------------------------------------------------ bounds
ValSlack  == 1      \* parameters range over -ValSlack .. One + ValSlack
BadIdSpan == 1      \* orbit ids range over -BadIdSpan .. 5 + BadIdSpan
MaxAoff   == 1      \* parameter offsets 0 .. MaxAoff
MaxPoff   == 1      \* point offsets 0 .. MaxPoff
MaxQdeg   == 8      \* degrees 0 .. MaxQdeg
MaxOrb    == 2      \* orbit counts 0 .. MaxOrb

\* ----------------------------------------------------------- scalar type T
One   == 6                  \* the value T(1)
Third == One \div 3         \* T(1) / 3
Half  == One \div 2         \* 0.5
Vals  == (0 - ValSlack) .. (One + ValSlack)
Pad   == One + ValSlack     \* content of parameters no orbit owns
Uninit == 100 * One         \* content of a point row nobody has written

\* ------------------------------------------------------------ orbit tables
npts_for_orbit == <<1, 2, 3, 6, 6, 12>>
narg_for_orbit == <<0, 1, 1, 2, 2, 3>>
Norbits  == Len(npts_for_orbit)
KnownIds == 0 .. (Norbits - 1)
OrbitIds == (0 - BadIdSpan) .. (Norbits - 1 + BadIdSpan)
npts(i)  == npts_for_orbit[i + 1]
narg(i)  == narg_for_orbit[i + 1]

NArgs == 3 + MaxAoff        \* length of the parameter vector
NPts  == 12 + MaxPoff       \* rows of the point matrix
Aoffs == 0 .. MaxAoff
Poffs == 0 .. MaxPoff

VARIABLES
    args,       \* VectorXT args: 0 .. NArgs-1 -> scalar
    pts,        \* MatrixPtsT pts: 0 .. NPts-1 -> <<x, y, z>>
    status,     \* "ok", or "aborted" once abort() was called
    cur,        \* the orbit the solver is working on: [i, aoff]
    last,       \* the call that produced this state: [op, i, aoff, poff]
    args0,      \* args as they were when that call was entered
    wlog,       \* rows of pts assigned by that call, in program order
    clamped,    \* TRUE while the slice of cur has been clamped and only
                \* clamped or sorted since
    orb,        \* VectorOrb handed to validate_orbit
    valid,      \* what validate_orbit returned
    qdeg,       \* this->qdeg()
    pc,         \* position in nbfn_for_qdeg / eval_orthob_block
    li, lj, lk, \* loop counters i, j, k
    n,          \* nbfn_for_qdeg: the counter n
    nbfn,       \* value returned by nbfn_for_qdeg
    off,        \* eval_orthob_block: the row counter off
    pow2ip1,    \* eval_orthob_block: e such that pow2ip1 = 2^(-e)
    out         \* eval_orthob_block: rows assigned, <<off, i, j, k>> each

orbitVars == <<args, pts, status, cur, last, args0, wlog, clamped>>
validVars == <<orb, valid>>
basisVars == <<qdeg, pc, li, lj, lk, n, nbfn, off, pow2ip1, out>>
vars == <<args, pts, status, cur, last, args0, wlog, clamped, orb, valid,
          qdeg, pc, li, lj, lk, n, nbfn, off, pow2ip1, out>>

\* --------------------------------------------------------- bary_to_cart
bary_to_cart(p1, p2, p3, z) == <<(0 - p1) + p2 - p3, (0 - p1) - p2 + p3, z>>

\* ---------------------------------------------------------- expand_orbit
\* Each case yields the assignments pts.row(r) = v as <<r, v>>, in order.
expand_case0(aoff, poff, a_) ==
    LET a == Third
    IN  << <<poff, bary_to_cart(a, a, a, 0)>> >>

expand_case1(aoff, poff, a_) ==
    LET a == Third
        b == a_[aoff]
    IN  << <<poff + 0, bary_to_cart(a, a, a, 0 - b)>>,
           <<poff + 1, bary_to_cart(a, a, a, b)>> >>

\* variant: the second row assigned twice, the third never
expand_case2_dup_row(aoff, poff, a_) ==
    LET a == a_[aoff]
    IN  << <<poff + 0, bary_to_cart(a, a, One - 2*a, 0)>>,
           <<poff + 1, bary_to_cart(a, One - 2*a, a, 0)>>,
           <<poff + 1, bary_to_cart(One - 2*a, a, a, 0)>> >>

expand_case2(aoff, poff, a_) ==
    LET a == a_[aoff]
    IN  << <<poff + 0, bary_to_cart(a, a, One - 2*a, 0)>>,
           <<poff + 1, bary_to_cart(a, One - 2*a, a, 0)>>,
           <<poff + 2, bary_to_cart(One - 2*a, a, a, 0)>> >>

expand_case3(aoff, poff, a_) ==
    LET a == a_[aoff + 0]
        b == a_[aoff + 1]
    IN  << <<poff + 0, bary_to_cart(a, a, One - 2*a, 0 - b)>>,
           <<poff + 1, bary_to_cart(a, One - 2*a, a, 0 - b)>>,
           <<poff + 2, bary_to_cart(One - 2*a, a, a, 0 - b)>>,
           <<poff + 3, bary_to_cart(a, a, One - 2*a, b)>>,
           <<poff + 4, bary_to_cart(a, One - 2*a, a, b)>>,
           <<poff + 5, bary_to_cart(One - 2*a, a, a, b)>> >>

\* variant: the last row repeats the permutation of the row before it
expand_case4_dup_perm(aoff, poff, a_) ==
    LET a == a_[aoff + 0]
        b == a_[aoff + 1]
    IN  << <<poff + 0, bary_to_cart(a, b, One - a - b, 0)>>,
           <<poff + 1, bary_to_cart(a, One - a - b, b, 0)>>,
           <<poff + 2, bary_to_cart(b, a, One - a - b, 0)>>,
           <<poff + 3, bary_to_cart(b, One - a - b, a, 0)>>,
           <<poff + 4, bary_to_cart(One - a - b, a, b, 0)>>,
           <<poff + 5, bary_to_cart(One - a - b, a, b, 0)>> >>

expand_case4(aoff, poff, a_) ==
    LET a == a_[aoff + 0]
        b == a_[aoff + 1]
    IN  << <<poff + 0, bary_to_cart(a, b, One - a - b, 0)>>,
           <<poff + 1, bary_to_cart(a, One - a - b, b, 0)>>,
           <<poff + 2, bary_to_cart(b, a, One - a - b, 0)>>,
           <<poff + 3, bary_to_cart(b, One - a - b, a, 0)>>,
           <<poff + 4, bary_to_cart(One - a - b, a, b, 0)>>,
           <<poff + 5, bary_to_cart(One - a - b, b, a, 0)>> >>

expand_case5(aoff, poff, a_) ==
    LET a == a_[aoff + 0]
        b == a_[aoff + 1]
        c == a_[aoff + 2]
    IN  << <<poff + 0,  bary_to_cart(a, b, One - a - b, 0 - c)>>,
           <<poff + 1,  bary_to_cart(a, One - a - b, b, 0 - c)>>,
           <<poff + 2,  bary_to_cart(b, a, One - a - b, 0 - c)>>,
           <<poff + 3,  bary_to_cart(b, One - a - b, a, 0 - c)>>,
           <<poff + 4,  bary_to_cart(One - a - b, a, b, 0 - c)>>,
           <<poff + 5,  bary_to_cart(One - a - b, b, a, 0 - c)>>,
           <<poff + 6,  bary_to_cart(a, b, One - a - b, c)>>,
           <<poff + 7,  bary_to_cart(a, One - a - b, b, c)>>,
           <<poff + 8,  bary_to_cart(b, a, One - a - b, c)>>,
           <<poff + 9,  bary_to_cart(b, One - a - b, a, c)>>,
           <<poff + 10, bary_to_cart(One - a - b, a, b, c)>>,
           <<poff + 11, bary_to_cart(One - a - b, b, a, c)>> >>

\* The switch: abort is TRUE when the default case is taken.
expand_orbit(i, aoff, poff, a_) ==
    [abort  |-> i \notin KnownIds,
     writes |-> CASE i = 0 -> expand_case0(aoff, poff, a_)
                  [] i = 1 -> expand_case1(aoff, poff, a_)
                  [] i = 2 -> expand_case2(aoff, poff, a_)
                  [] i = 3 -> expand_case3(aoff, poff, a_)
                  [] i = 4 -> expand_case4(aoff, poff, a_)
                  [] i = 5 -> expand_case5(aoff, poff, a_)
                  [] OTHER -> << >>]

\* pts after the assignments of w have been carried out one after another
RECURSIVE Store(_, _)
Store(p, w) ==
    IF w = << >> THEN p
    ELSE Store([p EXCEPT ![Head(w)[1]] = Head(w)[2]], Tail(w))

\* ---------------------------------------------------------------- clamp
\* The scalar helper clamp(l, v, h) of the base domain.
clamp(l, v, h) == IF v < l THEN l ELSE IF v > h THEN h ELSE v

\* ------------------------------------------------------------ clamp_arg
clamp_case1(aoff, a_) ==
    [a_ EXCEPT ![aoff] = clamp(0, a_[aoff], One)]

\* variant: orbit 2 clamped to [0, 1] like orbit 1
clamp_case2_to_one(aoff, a_) ==
    [a_ EXCEPT ![aoff] = clamp(0, a_[aoff], One)]

clamp_case2(aoff, a_) ==
    [a_ EXCEPT ![aoff] = clamp(0, a_[aoff], Half)]

clamp_case3(aoff, a_) ==
    LET s1 == [a_ EXCEPT ![aoff + 0] = clamp(0, a_[aoff + 0], Half)]
    IN  [s1 EXCEPT ![aoff + 1] = clamp(0, s1[aoff + 1], One)]

\* variant: b clamped against 1 - a before a itself is clamped
clamp_case4_b_first(aoff, a_) ==
    LET s1 == [a_ EXCEPT ![aoff + 1] = clamp(0, a_[aoff + 1], One - a_[aoff + 0])]
    IN  [s1 EXCEPT ![aoff + 0] = clamp(0, s1[aoff + 0], One)]

clamp_case4(aoff, a_) ==
    LET s1 == [a_ EXCEPT ![aoff + 0] = clamp(0, a_[aoff + 0], One)]
    IN  [s1 EXCEPT ![aoff + 1] = clamp(0, s1[aoff + 1], One - s1[aoff + 0])]

clamp_case5(aoff, a_) ==
    LET s1 == [a_ EXCEPT ![aoff + 0] = clamp(0, a_[aoff + 0], One)]
        s2 == [s1 EXCEPT ![aoff + 1] = clamp(0, s1[aoff + 1], One - s1[aoff + 0])]
    IN  [s2 EXCEPT ![aoff + 2] = clamp(0, s2[aoff + 2], One)]

\* variant: the default case breaks instead of aborting
clamp_arg_no_abort(i, aoff, a_) ==
    [abort |-> FALSE,
     args  |-> CASE i = 0 -> a_
                 [] i = 1 -> clamp_case1(aoff, a_)
                 [] i = 2 -> clamp_case2(aoff, a_)
                 [] i = 3 -> clamp_case3(aoff, a_)
                 [] i = 4 -> clamp_case4(aoff, a_)
                 [] i = 5 -> clamp_case5(aoff, a_)
                 [] OTHER -> a_]

clamp_arg(i, aoff, a_) ==
    [abort |-> i \notin KnownIds,
     args  |-> CASE i = 0 -> a_
                 [] i = 1 -> clamp_case1(aoff, a_)
                 [] i = 2 -> clamp_case2(aoff, a_)
                 [] i = 3 -> clamp_case3(aoff, a_)
                 [] i = 4 -> clamp_case4(aoff, a_)
                 [] i = 5 -> clamp_case5(aoff, a_)
                 [] OTHER -> a_]

\* ------------------------------------------------------------- sort_arg
\* variant: std::sort(baryc, baryc + 2), the third element left in place
Sort3_first_two(b) ==
    IF b[1] <= b[2] THEN b ELSE <<b[2], b[1], b[3]>>

\* variant: sorted with the comparison reversed
Sort3_descending(b) ==
    LET lo  == IF b[1] <= b[2] /\ b[1] <= b[3] THEN b[1]
               ELSE IF b[2] <= b[3] THEN b[2] ELSE b[3]
        hi  == IF b[1] >= b[2] /\ b[1] >= b[3] THEN b[1]
               ELSE IF b[2] >= b[3] THEN b[2] ELSE b[3]
    IN  <<hi, b[1] + b[2] + b[3] - lo - hi, lo>>

\* std::sort on three elements: the ascending arrangement of baryc
Sort3(b) ==
    LET lo  == IF b[1] <= b[2] /\ b[1] <= b[3] THEN b[1]
               ELSE IF b[2] <= b[3] THEN b[2] ELSE b[3]
        hi  == IF b[1] >= b[2] /\ b[1] >= b[3] THEN b[1]
               ELSE IF b[2] >= b[3] THEN b[2] ELSE b[3]
    IN  <<lo, b[1] + b[2] + b[3] - lo - hi, hi>>

\* variant: std::copy(baryc, baryc + 3, ...), all three elements copied
sort_copy_three(baryc, aoff, a_) ==
    [k \in DOMAIN a_ |-> IF k \in aoff .. (aoff + 2) THEN baryc[k - aoff + 1]
                         ELSE a_[k]]

\* std::copy(baryc, baryc + 2, args.data() + aoff)
sort_copy(baryc, aoff, a_) ==
    [k \in DOMAIN a_ |-> IF k \in aoff .. (aoff + 1) THEN baryc[k - aoff + 1]
                         ELSE a_[k]]

sort_baryc(aoff, a_) ==
    <<a_[aoff + 0], a_[aoff + 1], One - a_[aoff + 0] - a_[aoff + 1]>>

\* sort_arg has no default case: it returns normally for every i.
sort_arg(i, aoff, a_) ==
    IF i = 4 \/ i = 5
    THEN sort_copy(Sort3(sort_baryc(aoff, a_)), aoff, a_)
    ELSE a_

\* ----------------------------------------------------------- seed_orbit
\* this->rand(lo, hi) of the base domain: a draw from [lo, hi]; the model
\* samples the two ends and the middle of the range.
rand(lo, hi) == {lo, (lo + hi) \div 2, hi}

ISqrt(x) == CHOOSE r \in 0 .. x : r * r <= x /\ (r + 1) * (r + 1) > x

seeda == rand(0, Half)
seedb == rand(0, Third)
\* sqrt(1 - rand()^2), rounded down to the grid; rand() draws from [-1, 1]
seedc == {ISqrt(One * One - r * r) : r \in rand(0 - One, One)}

\* the set of parameter vectors seed_orbit may leave behind
seed_orbit(i, aoff, a_) ==
    [abort |-> i \notin KnownIds,
     args  |-> CASE i = 0 -> {a_}
                 [] i = 1 -> {[a_ EXCEPT ![aoff] = c] : c \in seedc}
                 [] i = 2 -> {[a_ EXCEPT ![aoff] = a] : a \in seeda}
                 [] i = 3 -> {[a_ EXCEPT ![aoff + 0] = a, ![aoff + 1] = c] :
                                  a \in seeda, c \in seedc}
                 [] i = 4 -> {[a_ EXCEPT ![aoff + 0] = a, ![aoff + 1] = b] :
                                  a \in seedb, b \in seedb}
                 [] i = 5 -> {[a_ EXCEPT ![aoff + 0] = a, ![aoff + 1] = b,
                                         ![aoff + 2] = c] :
                                  a \in seedb, b \in seedb, c \in seedc}
                 [] OTHER -> {a_}]

\* ------------------------------------------------------- validate_orbit
\* variant: orb(0) < 1
validate_orbit_strict(o) == o[0] < 1

validate_orbit(o) == o[0] <= 1

\* ------------------------------------------------- per-orbit operations
\* The solver owns args and pts for one trial: it seeds a fresh parameter
\* vector, clamps and sorts it between steps, and expands it into pts.
FreshPts  == [r \in 0 .. (NPts - 1) |-> <<Uninit, Uninit, Uninit>>]
NoCall    == [op |-> "none", i |-> 0, aoff |-> 0, poff |-> 0]
Call(o, i, aoff, poff) == [op |-> o, i |-> i, aoff |-> aoff, poff |-> poff]

\* offsets are pre-computed from the tables, so a known orbit's slice fits
FitsArgs(i, aoff) == i \in KnownIds => aoff + narg(i) <= NArgs
FitsPts(i, poff)  == i \in KnownIds => poff + npts(i) <= NPts

\* the parameters the solver holds for orbit i at aoff: arbitrary scalars in
\* the orbit's slice (two scalars for an unknown id), Pad everywhere else
SliceLen(i) == IF i \in KnownIds THEN narg(i) ELSE 2
TrialArgs(i, aoff) ==
    {[k \in 0 .. (NArgs - 1) |->
         IF k \in aoff .. (aoff + SliceLen(i) - 1) THEN s[k - aoff + 1] ELSE Pad] :
     s \in [1 .. SliceLen(i) -> Vals]}

ExpandOrbit(i, aoff, poff) ==
    /\ status = "ok" /\ last.op # "expand"
    /\ FitsArgs(i, aoff) /\ FitsPts(i, poff)
    /\ LET r == expand_orbit(i, aoff, poff, args)
       IN  /\ status' = IF r.abort THEN "aborted" ELSE "ok"
           /\ pts'    = Store(pts, r.writes)
           /\ wlog'   = [k \in 1 .. Len(r.writes) |-> r.writes[k][1]]
    /\ last'  = Call("expand", i, aoff, poff)
    /\ args0' = args
    /\ UNCHANGED <<args, cur, clamped>>
    /\ UNCHANGED <<validVars, basisVars>>

ClampArg(i, aoff) ==
    /\ status = "ok" /\ last.op # "expand"
    /\ FitsArgs(i, aoff)
    /\ LET r == clamp_arg(i, aoff, args)
       IN  /\ status' = IF r.abort THEN "aborted" ELSE "ok"
           /\ args'   = r.args
           /\ clamped' = ~r.abort
    /\ last'  = Call("clamp", i, aoff, 0)
    /\ args0' = args
    /\ UNCHANGED <<pts, wlog, cur>>
    /\ UNCHANGED <<validVars, basisVars>>

SortArg(i, aoff) ==
    /\ status = "ok" /\ last.op # "expand"
    /\ FitsArgs(i, aoff)
    /\ args'  = sort_arg(i, aoff, args)
    /\ last'  = Call("sort", i, aoff, 0)
    /\ args0' = args
    /\ UNCHANGED <<status, pts, wlog, cur, clamped>>
    /\ UNCHANGED <<validVars, basisVars>>

\* seeding starts a trial
SeedOrbit(i, aoff) ==
    /\ status = "ok" /\ last.op = "none"
    /\ FitsArgs(i, aoff)
    /\ LET r == seed_orbit(i, aoff, args)
       IN  /\ status' = IF r.abort THEN "aborted" ELSE "ok"
           /\ args' \in r.args
    /\ clamped' = FALSE
    /\ last'  = Call("seed", i, aoff, 0)
    /\ args0' = args
    /\ UNCHANGED <<pts, wlog, cur>>
    /\ UNCHANGED <<validVars, basisVars>>

\* ------------------------------------------------------- validate_orbit
ValidateOrbit ==
    /\ valid = "none"
    /\ valid' = IF validate_orbit(orb) THEN "accepted" ELSE "rejected"
    /\ UNCHANGED <<orb, orbitVars, basisVars>>

\* -------------------------------------------------------- nbfn_for_qdeg
NbfnCall ==
    /\ pc = "idle"
    /\ n' = 0 /\ li' = 0 /\ pc' = "nbfn_i"
    /\ UNCHANGED <<qdeg, lj, lk, nbfn, off, pow2ip1, out, orbitVars, validVars>>

NbfnI ==
    /\ pc = "nbfn_i"
    /\ IF li <= qdeg
       THEN lj' = li /\ pc' = "nbfn_j" /\ UNCHANGED nbfn
       ELSE nbfn' = n /\ pc' = "nbfn_ret" /\ UNCHANGED lj
    /\ UNCHANGED <<qdeg, li, lk, n, off, pow2ip1, out, orbitVars, validVars>>

NbfnJ ==
    /\ pc = "nbfn_j"
    /\ IF lj <= qdeg - li
       THEN lk' = 0 /\ pc' = "nbfn_k" /\ UNCHANGED li
       ELSE li' = li + 2 /\ pc' = "nbfn_i" /\ UNCHANGED lk
    /\ UNCHANGED <<qdeg, lj, n, nbfn, off, pow2ip1, out, orbitVars, validVars>>

\* variant: k stepped by 1
NbfnK_step_one ==
    /\ pc = "nbfn_k"
    /\ IF lk <= qdeg - li - lj
       THEN lk' = lk + 1 /\ n' = n + 1 /\ UNCHANGED <<lj, pc>>
       ELSE lj' = lj + 1 /\ pc' = "nbfn_j" /\ UNCHANGED <<lk, n>>
    /\ UNCHANGED <<qdeg, li, nbfn, off, pow2ip1, out, orbitVars, validVars>>

NbfnK ==
    /\ pc = "nbfn_k"
    /\ IF lk <= qdeg - li - lj
       THEN lk' = lk + 2 /\ n' = n + 1 /\ UNCHANGED <<lj, pc>>
       ELSE lj' = lj + 1 /\ pc' = "nbfn_j" /\ UNCHANGED <<lk, n>>
    /\ UNCHANGED <<qdeg, li, nbfn, off, pow2ip1, out, orbitVars, validVars>>

\* ---------------------------------------------------- eval_orthob_block
\* Only the control flow and the rows assigned are modelled; the values of
\* the polynomials are not.  pow2ip1 holds e with pow2ip1 = 2^(-e).
EvalCall ==
    /\ pc = "nbfn_ret"
    /\ pow2ip1' = 1 /\ li' = 0 /\ off' = 0 /\ out' = << >> /\ pc' = "eval_i"
    /\ UNCHANGED <<qdeg, lj, lk, n, nbfn, orbitVars, validVars>>

EvalI ==
    /\ pc = "eval_i"
    /\ IF li <= qdeg
       THEN lj' = li /\ pc' = "eval_j"
       ELSE pc' = "eval_ret" /\ UNCHANGED lj
    /\ UNCHANGED <<qdeg, li, lk, n, nbfn, off, pow2ip1, out, orbitVars, validVars>>

EvalJ ==
    /\ pc = "eval_j"
    /\ IF lj <= qdeg - li
       THEN lk' = 0 /\ pc' = "eval_k" /\ UNCHANGED <<li, pow2ip1>>
       ELSE /\ pow2ip1' = pow2ip1 + 2
            /\ li' = li + 2 /\ pc' = "eval_i" /\ UNCHANGED lk
    /\ UNCHANGED <<qdeg, lj, n, nbfn, off, out, orbitVars, validVars>>

EvalK ==
    /\ pc = "eval_k"
    /\ IF lk <= qdeg - li - lj
       THEN /\ out' = Append(out, <<off, li, lj, lk>>)
            /\ lk' = lk + 2 /\ off' = off + 1 /\ UNCHANGED <<lj, pc>>
       ELSE lj' = lj + 1 /\ pc' = "eval_j" /\ UNCHANGED <<lk, off, out>>
    /\ UNCHANGED <<qdeg, li, n, nbfn, pow2ip1, orbitVars, validVars>>

\* -------------------------------------------------------- specifications
IdleOrbit ==
    /\ args = [k \in 0 .. (NArgs - 1) |-> Pad]
    /\ pts = FreshPts /\ status = "ok" /\ last = NoCall
    /\ cur = [i |-> 0, aoff |-> 0]
    /\ args0 = args /\ wlog = << >> /\ clamped = FALSE

IdleValid == orb = [k \in KnownIds |-> 0] /\ valid = "none"

IdleBasis ==
    /\ qdeg = 0 /\ pc = "idle" /\ li = 0 /\ lj = 0 /\ lk = 0
    /\ n = 0 /\ nbfn = 0 /\ off = 0 /\ pow2ip1 = 1 /\ out = << >>

\* One trial of the solver on one orbit: the calls are made with the
\* orbit's id and its pre-computed parameter offset.
Init ==
    /\ \E i \in OrbitIds, aoff \in Aoffs :
           /\ FitsArgs(i, aoff)
           /\ cur = [i |-> i, aoff |-> aoff]
           /\ args \in TrialArgs(i, aoff)
    /\ pts = FreshPts /\ status = "ok" /\ last = NoCall
    /\ args0 = args /\ wlog = << >> /\ clamped = FALSE
    /\ IdleValid /\ IdleBasis

Next ==
    \/ \E poff \in Poffs : ExpandOrbit(cur.i, cur.aoff, poff)
    \/ ClampArg(cur.i, cur.aoff)
    \/ SortArg(cur.i, cur.aoff)
    \/ SeedOrbit(cur.i, cur.aoff)

Spec == Init /\ [][Next]_vars

InitValid ==
    /\ orb \in [KnownIds -> 0 .. MaxOrb] /\ valid = "none"
    /\ IdleOrbit /\ IdleBasis

NextValid == ValidateOrbit

SpecValid == InitValid /\ [][NextValid]_vars

InitBasis ==
    /\ qdeg \in 0 .. MaxQdeg /\ pc = "idle" /\ li = 0 /\ lj = 0 /\ lk = 0
    /\ n = 0 /\ nbfn = 0 /\ off = 0 /\ pow2ip1 = 1 /\ out = << >>
    /\ IdleOrbit /\ IdleValid

NextBasis ==
    \/ NbfnCall \/ NbfnI \/ NbfnJ \/ NbfnK
    \/ EvalCall \/ EvalI \/ EvalJ \/ EvalK

SpecBasis == InitBasis /\ [][NextBasis]_vars

\* ================================================================ claims
\* the slice of the current orbit, now and when the last call was entered
A(k)  == args[cur.aoff + k]
A0(k) == args0[cur.aoff + k]
SliceIdx(i, aoff) == aoff .. (aoff + narg(i) - 1)
Unit(x) == 0 <= x /\ x <= One
Perms3 == {f \in [1 .. 3 -> 1 .. 3] : {f[1], f[2], f[3]} = 1 .. 3}
SameBag3(s, t) == \E f \in Perms3 : \A k \in 1 .. 3 : s[k] = t[f[k]]
PointSet(w) == {w[k][2] : k \in 1 .. Len(w)}

\* the valid domain of orbit i's parameters
InDomain(i, aoff, a_) ==
    CASE i = 1 -> Unit(a_[aoff])
      [] i = 2 -> 0 <= a_[aoff] /\ a_[aoff] <= Half
      [] i = 3 -> /\ 0 <= a_[aoff] /\ a_[aoff] <= Half
                  /\ Unit(a_[aoff + 1])
      [] i = 4 -> /\ Unit(a_[aoff])
                  /\ 0 <= a_[aoff + 1] /\ a_[aoff + 1] <= One - a_[aoff]
                  /\ Unit(a_[aoff + 1]) /\ Unit(One - a_[aoff] - a_[aoff + 1])
      [] i = 5 -> /\ Unit(a_[aoff])
                  /\ 0 <= a_[aoff + 1] /\ a_[aoff + 1] <= One - a_[aoff]
                  /\ Unit(a_[aoff + 1]) /\ Unit(One - a_[aoff] - a_[aoff + 1])
                  /\ Unit(a_[aoff + 2])
      [] OTHER -> TRUE

\* C1: expand_orbit on a known orbit assigns exactly the rows
\* poff .. poff + npts_for_orbit[i] - 1, each once; its result depends on no
\* parameter outside args(aoff) .. args(aoff + narg_for_orbit[i] - 1); all
\* other rows of pts and the whole of args keep their content.
C1_ExpandFrame ==
    (last.op = "expand" /\ cur.i \in KnownIds) =>
        LET i    == cur.i
            aoff == cur.aoff
            poff == last.poff
            rows == poff .. (poff + npts(i) - 1)
        IN  /\ npts_for_orbit = <<1, 2, 3, 6, 6, 12>>
            /\ narg_for_orbit = <<0, 1, 1, 2, 2, 3>>
            /\ status = "ok"
            /\ Len(wlog) = npts(i)
            /\ {wlog[k] : k \in 1 .. Len(wlog)} = rows
            /\ \A r \in rows : pts[r] # FreshPts[r]
            /\ \A r \in (0 .. (NPts - 1)) \ rows : pts[r] = FreshPts[r]
            /\ args = args0
            /\ \A k \in (0 .. (NArgs - 1)) \ SliceIdx(i, aoff) : \A v \in Vals :
                   expand_orbit(i, aoff, poff, [args EXCEPT ![k] = v])
                       = expand_orbit(i, aoff, poff, args)

C1_Witness ==
    /\ last.op = "expand" /\ cur.i = 5 /\ cur.aoff = 1 /\ last.poff = 1
    /\ pts[12] # FreshPts[12] /\ pts[0] = FreshPts[0]

\* C2: after clamp_arg the slice of the orbit lies in the orbit's valid
\* domain, and the parameters outside the slice are unchanged.
C2_ClampDomain ==
    (last.op = "clamp" /\ cur.i \in KnownIds) =>
        /\ status = "ok"
        /\ InDomain(cur.i, cur.aoff, args)
        /\ \A k \in (0 .. (NArgs - 1)) \ SliceIdx(cur.i, cur.aoff) :
               args[k] = args0[k]

C2_Witness ==
    /\ last.op = "clamp" /\ cur.i = 4
    /\ A0(0) > 0 /\ A0(0) < One /\ A0(1) > One - A0(0)
    /\ A(0) = A0(0) /\ A(1) = One - A(0)

\* C3: clamping a second time changes nothing, whatever the input was.
C3_ClampIdempotent ==
    (last.op = "clamp" /\ status = "ok") =>
        /\ clamp_arg(cur.i, cur.aoff, args).abort = FALSE
        /\ clamp_arg(cur.i, cur.aoff, args).args = args

C3_Witness ==
    /\ last.op = "clamp" /\ cur.i = 5
    /\ A0(0) < 0 /\ A0(1) > One /\ A0(2) = One
    /\ args # args0

\* C4: for orbits 4 and 5, whichever two values of a valid barycentric
\* triple are stored, and in whichever order, sort_arg leaves the two smallest
\* values of the triple in ascending order.
C4_CanonicalUnique ==
    (/\ last.op = "sort" /\ cur.i \in {4, 5}
     /\ Unit(A0(0)) /\ Unit(A0(1)) /\ Unit(One - A0(0) - A0(1))) =>
        LET t == <<A0(0), A0(1), One - A0(0) - A0(1)>>
            stored(p, q) == [args0 EXCEPT ![cur.aoff] = t[p],
                                          ![cur.aoff + 1] = t[q]]
        IN  /\ \A p, q \in 1 .. 3 :
                   p # q => sort_arg(cur.i, cur.aoff, stored(p, q)) = args
            /\ SameBag3(<<A(0), A(1), One - A(0) - A(1)>>, t)
            /\ A(0) <= A(1) /\ A(1) <= One - A(0) - A(1)

C4_Witness ==
    /\ last.op = "sort" /\ cur.i = 4
    /\ Unit(A0(0)) /\ Unit(A0(1)) /\ Unit(One - A0(0) - A0(1))
    /\ A0(0) > A0(1) /\ A0(1) > One - A0(0) - A0(1)
    /\ A(0) = One - A0(0) - A0(1) /\ A(1) = A0(1)

\* C5: sort_arg keeps the set of points the orbit expands to; it keeps the
\* axial parameter c of orbit 5 and everything outside the slice, and for
\* orbits 0 .. 3 it changes nothing.
C5_SortKeepsPoints ==
    (last.op = "sort" /\ cur.i \in KnownIds) =>
        IF cur.i \in {4, 5}
        THEN /\ PointSet(expand_orbit(cur.i, cur.aoff, 0, args).writes)
                    = PointSet(expand_orbit(cur.i, cur.aoff, 0, args0).writes)
             /\ \A k \in (0 .. (NArgs - 1)) \ (cur.aoff .. (cur.aoff + 1)) :
                    args[k] = args0[k]
        ELSE args = args0

C5_Witness ==
    /\ last.op = "sort" /\ cur.i = 5
    /\ A0(0) > A0(1) /\ A0(2) > 0 /\ A0(2) < A0(1)
    /\ args # args0

\* C6: the six rows of orbit 4 are the images of the six permutations of
\* (a, b, 1 - a - b) at z = 0, each permutation once, and the barycentric
\* coordinates recovered from each row are a, b and 1 - a - b.
C6_Orbit4Closure ==
    (last.op = "expand" /\ cur.i = 4) =>
        LET t == <<A(0), A(1), One - A(0) - A(1)>>
            cart(p1, p2, p3, z) == <<(0 - p1) + p2 - p3, (0 - p1) - p2 + p3, z>>
            img(f) == cart(t[f[1]], t[f[2]], t[f[3]], 0)
            row(k) == pts[last.poff + k]
            \* p2 = (1 + x)/2, p3 = (1 + y)/2, p1 = 1 - p2 - p3, doubled
            bary2(v) == <<0 - (v[1] + v[2]), One + v[1], One + v[2]>>
        IN  /\ \A f \in Perms3 :
                   Cardinality({k \in 0 .. 5 : row(k) = img(f)})
                       = Cardinality({g \in Perms3 : img(g) = img(f)})
            /\ \A k \in 0 .. 5 :
                   /\ \E f \in Perms3 : row(k) = img(f)
                   /\ row(k)[3] = 0
                   /\ SameBag3(bary2(row(k)), <<2 * t[1], 2 * t[2], 2 * t[3]>>)

C6_Witness ==
    /\ last.op = "expand" /\ cur.i = 4 /\ status = "ok"
    /\ A(0) = 1 /\ A(1) = 2
    /\ Cardinality({pts[last.poff + k] : k \in 0 .. 5}) = 6

\* C7: eval_orthob_block assigns exactly the rows 0 .. nbfn_for_qdeg(qdeg)-1,
\* each once and in the nested (i, j, k) order with i and k even; and
\* nbfn_for_qdeg(0) = 1.
C7_BasisCount ==
    (pc = "eval_ret") =>
        LET idx(r) == <<out[r][2], out[r][3], out[r][4]>>
            before(u, v) ==
                \/ u[1] < v[1]
                \/ u[1] = v[1] /\ u[2] < v[2]
                \/ u[1] = v[1] /\ u[2] = v[2] /\ u[3] < v[3]
            degs == {u \in (0 .. qdeg) \X (0 .. qdeg) \X (0 .. qdeg) :
                        /\ u[1] % 2 = 0 /\ u[3] % 2 = 0
                        /\ u[1] <= u[2] /\ u[2] <= qdeg - u[1]
                        /\ u[3] <= qdeg - u[1] - u[2]}
        IN  /\ off = nbfn
            /\ Len(out) = nbfn
            /\ \A r \in 1 .. Len(out) : out[r][1] = r - 1
            /\ \A r \in 1 .. (Len(out) - 1) : before(idx(r), idx(r + 1))
            /\ {idx(r) : r \in 1 .. Len(out)} = degs
            /\ (qdeg = 0 => nbfn = 1)

C7_Witness == pc = "eval_ret" /\ qdeg = 8 /\ off > 1 /\ off = Len(out)

\* C8 as claimed: every per-orbit operation aborts on an unknown orbit id
\* and leaves both buffers alone.
C8_AllAbort ==
    (last.op \in {"expand", "clamp", "sort", "seed"} /\ cur.i \notin KnownIds) =>
        /\ status = "aborted"
        /\ args = args0 /\ pts = FreshPts

\* C8, amended: expand_orbit, clamp_arg and seed_orbit abort on an unknown
\* orbit id; sort_arg returns normally; none of the four modifies args or pts.
C8_AbortExceptSort ==
    (last.op \in {"expand", "clamp", "sort", "seed"} /\ cur.i \notin KnownIds) =>
        /\ status = (IF last.op = "sort" THEN "ok" ELSE "aborted")
        /\ args = args0 /\ pts = FreshPts /\ wlog = << >>

C8_Witness ==
    /\ status = "aborted" /\ last.op = "clamp" /\ cur.i = Norbits
    /\ args0[cur.aoff] < 0 /\ args = args0

\* C9: validate_orbit accepts exactly the orbit-count vectors whose entry for
\* orbit 0 is at most 1.
C9_ValidityRule ==
    (valid # "none") =>
        /\ (valid = "accepted") <=> (orb[0] <= 1)
        /\ orb[0] \in {0, 1} => valid = "accepted"
        /\ orb[0] >= 2 => valid = "rejected"

C9_Witness == valid = "rejected" /\ orb[0] = 2 /\ orb[1] = 0 /\ orb[5] = 1

\* C10: for orbits 4 and 5 sort_arg takes a slice in the clamp domain to a
\* slice in the clamp domain with a <= b <= 1 - a - b, which clamp_arg leaves
\* alone; so the slice is in the domain after any calls of clamp_arg and
\* sort_arg of which one was clamp_arg.
C10_SortKeepsDomain ==
    /\ (/\ last.op = "sort" /\ cur.i \in {4, 5}
        /\ InDomain(cur.i, cur.aoff, args0)) =>
           /\ InDomain(cur.i, cur.aoff, args)
           /\ A(0) <= A(1) /\ A(1) <= One - A(0) - A(1)
           /\ clamp_arg(cur.i, cur.aoff, args).args = args
    /\ (clamped /\ cur.i \in {4, 5}) => InDomain(cur.i, cur.aoff, args)

C10_Witness ==
    /\ clamped /\ last.op = "sort" /\ cur.i = 5
    /\ args # args0 /\ A0(1) > 0 /\ A0(0) > A0(1)

====
